---- MODULE Spec2Model ----
(***************************************************************************)
(* FIFO profit-and-loss matcher (src/main.py).                             *)
(*                                                                         *)
(* OrderManagementSystem.run reads the rows of a CSV file one at a time    *)
(* and hands each to place_order, which either appends the order to the    *)
(* backlog of its symbol or matches it against the front of the backlog.   *)
(*                                                                         *)
(* Numbers.  PRICE and the running total are Python floats.  The model     *)
(* draws prices from multiples of 1/8: these and all the products and sums *)
(* the bounds allow are exactly representable binary fractions, so the     *)
(* float arithmetic of the program is exact on them and integers counting  *)
(* eighths model it faithfully.  The '.2f' formatting of such a value is   *)
(* a round-half-to-even to hundredths (0.125 prints as 0.12, 0.375 as      *)
(* 0.38); Format2 computes it and returns hundredths.                      *)
(*                                                                         *)
(* SIDE.  Line 39 compares sides with 'is'.  The csv reader returns the    *)
(* one-character strings "B" and "S" as the interpreter's shared           *)
(* one-character objects, so on the input domain {"B","S"} identity and    *)
(* equality agree; the model compares by value.                            *)
(***************************************************************************)
EXTENDS Integers, Sequences, FiniteSets, TLC

\* ---- bounds of the model ------------------------------------------------
\* The input file has at most MaxOrders rows.  Rows on the symbol "X" take
\* every side, every QUANTITY of Quantities and every PRICE of Prices
\* (eighths: 0.125 and 0.25).  At most MaxOther rows are on the symbol "Y";
\* they take every side and the quantity and price of OtherRow.
MaxOrders  == 4
MaxOther   == 1
Quantities == {0, 1, 3}
Prices     == {1, 2}
OtherRow   == [PRICE |-> 1, QUANTITY |-> 1]

Sides == {"B", "S"}

VARIABLES
    queue,      \* self.queue : symbol -> backlog (a defaultdict of deques)
    total,      \* self.total, in eighths
    order,      \* the incoming order place_order is working on
    pc,         \* position of the process
    out,        \* lines written to standard output, in order
    exit,       \* exit status of the process, NoExit while it runs
    input,      \* rows handed to place_order so far, as they were read
    entry       \* the latest call of place_order: its order and the backlog
                \* of the order's symbol, both as they were at the call

vars == <<queue, total, order, pc, out, exit, input, entry>>

NoExit  == -1
NoOrder == [TIME |-> 0, SYMBOL |-> "-", SIDE |-> "-", PRICE |-> 0, QUANTITY |-> 0]

\* ---- pure helpers ---------------------------------------------------------
Min(a, b) == IF a <= b THEN a ELSE b

\* f'{x:.2f}' of x eighths: hundredths, ties rounded to the even hundredth.
Format2(x) ==
    LET n == 25 * x
        lo == n \div 2
    IN  IF n % 2 = 0 THEN lo
        ELSE IF lo % 2 = 0 THEN lo ELSE lo + 1

\* self.queue[symbol]: a defaultdict lookup inserts an empty deque for a
\* symbol it has not seen.
LookupOnly(q, s) == s :> (IF s \in DOMAIN q THEN q[s] ELSE << >>)
LookupClearsOthers(q, s) ==
    [k \in DOMAIN q \cup {s} |-> IF k = s /\ s \in DOMAIN q THEN q[s] ELSE << >>]
Lookup(q, s) == IF s \in DOMAIN q THEN q ELSE q @@ (s :> << >>)

\* pending[0]: the index of the front of the deque.
BackIndex(pending) == Len(pending)
FrontIndex(pending) == 1

\* line 39: not pending, or the order has the side of the front order.
NoMatchOnlyEmpty(pending, o) == pending = << >>
NoMatch(pending, o) ==
    \/ pending = << >>
    \/ o.SIDE = pending[FrontIndex(pending)].SIDE

\* line 42: the loop condition.
LoopCondOffByOne(pending, o) == pending # << >> /\ o.QUANTITY > 1
LoopCond(pending, o) == pending # << >> /\ o.QUANTITY # 0

\* line 43
MatchQuantityOfOrder(o, head) == o.QUANTITY
MatchQuantity(o, head) == Min(o.QUANTITY, head.QUANTITY)

\* line 44
ProfitAndLossReversed(quantity, o, head) == quantity * (head.PRICE - o.PRICE)
ProfitAndLoss(quantity, o, head) == quantity * (o.PRICE - head.PRICE)

\* lines 45-48
AddSignedAlwaysAdd(t, side, profit_and_loss) == t + profit_and_loss
AddSigned(t, side, profit_and_loss) ==
    IF side = "B" THEN t - profit_and_loss ELSE t + profit_and_loss

\* lines 68-76: the closed-trade line, field by field.
close_orderSidesFromOrder(o, head, quantity, profit_and_loss) ==
    [kind        |-> "trade",
     OPEN_TIME   |-> head.TIME,
     CLOSE_TIME  |-> o.TIME,
     SYMBOL      |-> o.SYMBOL,
     QUANTITY    |-> quantity,
     PNL         |-> Format2(profit_and_loss),
     OPEN_SIDE   |-> o.SIDE,
     CLOSE_SIDE  |-> IF o.SIDE = "B" THEN "S" ELSE "B",
     OPEN_PRICE  |-> Format2(o.PRICE),
     CLOSE_PRICE |-> Format2(head.PRICE)]
close_order(o, head, quantity, profit_and_loss) ==
    [kind        |-> "trade",
     OPEN_TIME   |-> head.TIME,
     CLOSE_TIME  |-> o.TIME,
     SYMBOL      |-> o.SYMBOL,
     QUANTITY    |-> quantity,
     PNL         |-> Format2(profit_and_loss),
     OPEN_SIDE   |-> head.SIDE,
     CLOSE_SIDE  |-> IF head.SIDE = "B" THEN "S" ELSE "B",
     OPEN_PRICE  |-> Format2(head.PRICE),
     CLOSE_PRICE |-> Format2(o.PRICE)]

\* line 52: the front order is used up.
ExhaustedNever(head) == FALSE
Exhausted(head) == head.QUANTITY = 0

\* line 54: the incoming order has a remainder to rest.
HasRemainderAlways(o) == TRUE
HasRemainderNever(o) == FALSE
HasRemainder(o) == o.QUANTITY # 0

HeaderLine == [kind |-> "header"]
ErrorLine  == [kind |-> "error"]
\* line 86
TotalLine(t) == [kind |-> "total", value |-> Format2(t)]

\* line 21
HeaderOutputNone(o) == o
HeaderOutput(o) == Append(o, HeaderLine)

\* lines 27-28
NotFoundOutputWithHeader(o) == Append(Append(o, HeaderLine), ErrorLine)
NotFoundOutput(o) == Append(o, ErrorLine)

\* ---- the state machine ----------------------------------------------------
Init ==
    /\ queue = << >>
    /\ total = 0
    /\ order = NoOrder
    /\ pc = "start"
    /\ out = << >>
    /\ exit = NoExit
    /\ input = << >>
    /\ entry = [order |-> NoOrder, pending |-> << >>]

\* lines 19-21: the file opens and the header is printed.
OpenOk ==
    /\ pc = "start"
    /\ out' = HeaderOutput(out)
    /\ pc' = "read"
    /\ UNCHANGED <<queue, total, order, exit, input, entry>>

\* lines 19, 27-29: open raises FileNotFoundError; the error is printed and
\* the process exits with status 1.
OpenFail ==
    /\ pc = "start"
    /\ out' = NotFoundOutput(out)
    /\ exit' = 1
    /\ pc' = "failed"
    /\ UNCHANGED <<queue, total, order, input, entry>>

\* line 19: open raises another OSError (permission denied, a directory);
\* line 27 does not catch it, the interpreter prints a traceback on standard
\* error and exits with status 1.
OpenError ==
    /\ pc = "start"
    /\ exit' = 1
    /\ pc' = "crashed"
    /\ UNCHANGED <<queue, total, order, out, input, entry>>

\* The rows the reader can yield next: TIME is the position of the row.
OtherRows == Cardinality({k \in 1 .. Len(input) : input[k].SYMBOL = "Y"})
Rows ==
    { [TIME |-> Len(input) + 1, SYMBOL |-> "X", SIDE |-> d, PRICE |-> p, QUANTITY |-> n] :
        d \in Sides, p \in Prices, n \in Quantities }
    \cup
    { [TIME |-> Len(input) + 1, SYMBOL |-> "Y", SIDE |-> d,
       PRICE |-> OtherRow.PRICE, QUANTITY |-> OtherRow.QUANTITY] :
        d \in {x \in Sides : OtherRows < MaxOther} }

\* lines 22-26 and 39-41: a row is read, coerced and passed to place_order,
\* which appends it when there is nothing to match and otherwise enters the
\* matching loop.
Submit(o) ==
    /\ pc = "read"
    /\ Len(input) < MaxOrders
    /\ input' = Append(input, o)
    /\ LET q == Lookup(queue, o.SYMBOL)
           pending == q[o.SYMBOL]
       IN  /\ entry' = [order |-> o, pending |-> pending]
           /\ IF NoMatch(pending, o)
              THEN /\ queue' = [q EXCEPT ![o.SYMBOL] = Append(pending, o)]
                   /\ order' = NoOrder
                   /\ pc' = "read"
              ELSE /\ queue' = q
                   /\ order' = o
                   /\ pc' = "loop"
    /\ UNCHANGED <<total, out, exit>>

\* lines 42-53: one iteration of the matching loop.
Match ==
    /\ pc = "loop"
    /\ LoopCond(queue[order.SYMBOL], order)
    /\ LET pending == queue[order.SYMBOL]
           i == FrontIndex(pending)
           head == pending[i]
           quantity == MatchQuantity(order, head)
           profit_and_loss == ProfitAndLoss(quantity, order, head)
           decremented == [pending EXCEPT ![i].QUANTITY = @ - quantity]
       IN  /\ total' = AddSigned(total, order.SIDE, profit_and_loss)
           /\ out' = Append(out, close_order(order, head, quantity, profit_and_loss))
           /\ order' = [order EXCEPT !.QUANTITY = @ - quantity]
           /\ queue' = [queue EXCEPT ![order.SYMBOL] =
                            IF Exhausted(decremented[FrontIndex(decremented)])
                            THEN Tail(decremented)
                            ELSE decremented]
    /\ UNCHANGED <<pc, exit, input, entry>>

\* lines 42, 54-55: the loop ends; a remainder of the order is appended.
Finish ==
    /\ pc = "loop"
    /\ ~LoopCond(queue[order.SYMBOL], order)
    /\ queue' = IF HasRemainder(order)
                THEN [queue EXCEPT ![order.SYMBOL] = Append(@, order)]
                ELSE queue
    /\ order' = NoOrder
    /\ pc' = "read"
    /\ UNCHANGED <<total, out, exit, input, entry>>

\* lines 23-25: a row fails coercion; the ValueError is not caught, the
\* interpreter prints a traceback on standard error and exits with status 1.
Malformed ==
    /\ pc = "read"
    /\ Len(input) < MaxOrders
    /\ exit' = 1
    /\ pc' = "crashed"
    /\ UNCHANGED <<queue, total, order, out, input, entry>>

\* lines 22, 30, 86: the reader is exhausted, run returns self.total, main
\* prints it and the process ends with status 0.
EndOfInput ==
    /\ pc = "read"
    /\ out' = Append(out, TotalLine(total))
    /\ exit' = 0
    /\ pc' = "done"
    /\ UNCHANGED <<queue, total, order, input, entry>>

Next ==
    \/ OpenOk
    \/ OpenFail
    \/ OpenError
    \/ \E o \in Rows : Submit(o)
    \/ Match
    \/ Finish
    \/ Malformed
    \/ EndOfInput

Spec == Init /\ [][Next]_vars

\* ---- vocabulary of the properties ----------------------------------------
\* The backlog of a symbol; a symbol never looked up has none.
Backlog(s) == IF s \in DOMAIN queue THEN queue[s] ELSE << >>

TradeLines == {i \in 1 .. Len(out) : out[i].kind = "trade"}

\* This step wrote a closed-trade line; NewTrade is that line.
TradeEmitted == Len(out') = Len(out) + 1 /\ out'[Len(out')].kind = "trade"
NewTrade == out'[Len(out')]

\* This step read a row and called place_order with it; NewRow is the row.
RowSubmitted == Len(input') = Len(input) + 1
NewRow == input'[Len(input')]

RECURSIVE SumQuantity(_)
SumQuantity(pending) ==
    IF pending = << >> THEN 0
    ELSE pending[1].QUANTITY + SumQuantity(Tail(pending))

\* ---- C1 -------------------------------------------------------------------
\* C1: FIFO ordering.  In every step, an order that rests behind the front of
\* a backlog is left as it is (same quantity, still resting, at most moved up
\* by the removal of the front); a closed-trade line written in the step is
\* against the order at the front of the backlog; and a line written after
\* another line of the same call is against a younger resting order.
FIFOStep ==
    /\ \A s \in DOMAIN queue : \A i \in 2 .. Len(queue[s]) :
          \E j \in {i - 1, i} :
              /\ j <= Len(queue'[s])
              /\ queue'[s][j] = queue[s][i]
    /\ TradeEmitted =>
          /\ Backlog(NewTrade.SYMBOL) # << >>
          /\ NewTrade.OPEN_TIME = Backlog(NewTrade.SYMBOL)[1].TIME
          /\ \A i \in TradeLines :
                out[i].CLOSE_TIME = NewTrade.CLOSE_TIME
                    => out[i].OPEN_TIME < NewTrade.OPEN_TIME
C1_FIFO == [][FIFOStep]_vars

\* An order consumed the older of two resting orders and part of the newer
\* one, and a later order consumed more of the newer one.
C1_Witness ==
    \E i, j, k \in TradeLines :
        /\ i < j /\ j < k
        /\ out[i].CLOSE_TIME = out[j].CLOSE_TIME
        /\ out[i].OPEN_TIME < out[j].OPEN_TIME
        /\ out[k].CLOSE_TIME > out[j].CLOSE_TIME
        /\ out[k].OPEN_TIME = out[j].OPEN_TIME
        /\ out[i].QUANTITY > 0 /\ out[j].QUANTITY > 0 /\ out[k].QUANTITY > 0

\* ---- C2 -------------------------------------------------------------------
\* C2: backlog side purity.  In every state, between calls and inside the
\* matching loop, all the orders of a backlog have the same side.
C2_SidePurity ==
    \A s \in DOMAIN queue : \A i, j \in 1 .. Len(queue[s]) :
        queue[s][i].SIDE = queue[s][j].SIDE

\* Inside the loop of an order that has already consumed the whole of an
\* earlier backlog side: a backlog of two orders, one of quantity zero.
C2_Witness ==
    /\ pc = "loop"
    /\ Len(queue[order.SYMBOL]) >= 2
    /\ \E i \in 1 .. Len(queue[order.SYMBOL]) : queue[order.SYMBOL][i].QUANTITY = 0
    /\ TradeLines # {}

\* ---- C3 -------------------------------------------------------------------
\* C3: PnL sign.  A step that writes a closed-trade line of quantity q for a
\* buy leg at price Pb and a sell leg at price Ps moves the running total by
\* q * (Ps - Pb), whichever leg was resting; no other step moves the total.
PnLStep ==
    IF TradeEmitted
    THEN LET head == queue[order.SYMBOL][1]
             buy  == IF order.SIDE = "B" THEN order ELSE head
             sell == IF order.SIDE = "B" THEN head ELSE order
         IN  /\ {buy.SIDE, sell.SIDE} = {"B", "S"}
             /\ total' - total = NewTrade.QUANTITY * (sell.PRICE - buy.PRICE)
    ELSE total' = total
C3_PnLSign == [][PnLStep]_vars

\* Both a buy and a sell have closed a position at a different price.
C3_Witness ==
    /\ \E i \in TradeLines : out[i].CLOSE_SIDE = "B" /\ out[i].PNL # 0
    /\ \E i \in TradeLines : out[i].CLOSE_SIDE = "S" /\ out[i].PNL # 0
    /\ total # 0

\* ---- C4 -------------------------------------------------------------------
\* C4: quantity conservation.  The quantity on a closed-trade line is the
\* smaller of the remaining quantities of the incoming order and of the front
\* order, and the step takes exactly that much off both; a step that writes
\* no line changes no remaining quantity.
QuantityStep ==
    IF TradeEmitted
    THEN LET pending == queue[order.SYMBOL]
             head == pending[1]
             reported == NewTrade.QUANTITY
         IN  /\ reported = Min(order.QUANTITY, head.QUANTITY)
             /\ order'.QUANTITY = order.QUANTITY - reported
             /\ LET rest == [pending EXCEPT ![1].QUANTITY = head.QUANTITY - reported]
                IN  queue'[order.SYMBOL] \in {rest, Tail(rest)}
             /\ \A s \in DOMAIN queue \ {order.SYMBOL} : queue'[s] = queue[s]
    ELSE /\ \A s \in DOMAIN queue : \A i \in 1 .. Len(queue[s]) :
                /\ i <= Len(queue'[s])
                /\ queue'[s][i] = queue[s][i]
         /\ pc = "loop" =>
                queue'[order.SYMBOL] \in
                    {queue[order.SYMBOL], Append(queue[order.SYMBOL], order)}
C4_QuantityConservation == [][QuantityStep]_vars

\* A partial fill of the resting order and a partial fill of the incoming one.
C4_Witness ==
    /\ \E i \in TradeLines :
          /\ out[i].QUANTITY >= 1
          /\ out[i].QUANTITY < input[out[i].OPEN_TIME].QUANTITY
    /\ \E i \in TradeLines :
          /\ out[i].QUANTITY >= 1
          /\ out[i].QUANTITY < input[out[i].CLOSE_TIME].QUANTITY

\* ---- C5 -------------------------------------------------------------------
\* C5: no spurious trades.  A call of place_order with an order whose backlog
\* is empty or has a front order of the order's side writes no closed-trade
\* line, leaves the total and the resting orders as they are, appends the
\* order in full to the back of its backlog, and returns.
NoSpuriousStep ==
    RowSubmitted =>
        LET pending == Backlog(NewRow.SYMBOL)
        IN  (pending = << >> \/ NewRow.SIDE = pending[1].SIDE) =>
                /\ out' = out
                /\ total' = total
                /\ queue'[NewRow.SYMBOL] = Append(pending, NewRow)
                /\ \A s \in DOMAIN queue \ {NewRow.SYMBOL} : queue'[s] = queue[s]
                /\ pc' = "read"
C5_NoSpuriousTrades == [][NoSpuriousStep]_vars

\* Three orders of one side rest in a backlog, one of them of quantity zero,
\* and nothing has been written but the header.
C5_Witness ==
    /\ \E s \in DOMAIN queue :
          /\ Len(queue[s]) >= 3
          /\ \E i \in 1 .. Len(queue[s]) : queue[s][i].QUANTITY = 0
    /\ TradeLines = {}
    /\ total = 0

\* ---- C6 -------------------------------------------------------------------
\* The latest call of place_order has returned, and it was made with an order
\* on the opposite side of a backlog whose quantities sum to the quantity of
\* the order.
ExactCall ==
    /\ pc # "loop"
    /\ entry.order # NoOrder
    /\ entry.pending # << >>
    /\ entry.pending[1].SIDE # entry.order.SIDE
    /\ entry.order.QUANTITY = SumQuantity(entry.pending)

\* C6 as stated: exact exhaustion leaves the backlog empty.
C6_Original == ExactCall => queue[entry.order.SYMBOL] = << >>

\* C6: exact exhaustion.  After a call with an order whose quantity is the
\* sum of the quantities of the opposite-side backlog, the incoming order is
\* not appended and no order of nonzero quantity is left: what is left is a
\* tail of the former backlog made of orders of quantity zero, and nothing is
\* left when every resting order had a quantity of at least one.
C6_ExactExhaustion ==
    ExactCall =>
        LET left == queue[entry.order.SYMBOL]
            was  == entry.pending
        IN  /\ \E k \in 0 .. Len(was) : left = SubSeq(was, k + 1, Len(was))
            /\ \A i \in 1 .. Len(left) : left[i].QUANTITY = 0
            /\ (\A i \in 1 .. Len(was) : was[i].QUANTITY >= 1) => left = << >>

\* An order has exactly exhausted a backlog of two orders of nonzero quantity.
C6_Witness ==
    /\ ExactCall
    /\ Len(entry.pending) >= 2
    /\ \A i \in 1 .. Len(entry.pending) : entry.pending[i].QUANTITY >= 1
    /\ queue[entry.order.SYMBOL] = << >>

\* ---- C7 -------------------------------------------------------------------
\* The orders alive in a state: the resting ones and the incoming one.
LiveOrders ==
    UNION {{queue[s][i] : i \in 1 .. Len(queue[s])} : s \in DOMAIN queue}
        \cup (IF pc = "loop" THEN {order} ELSE {})

RestingOrders ==
    UNION {{queue[s][i] : i \in 1 .. Len(queue[s])} : s \in DOMAIN queue}

\* Every order alive after the step is the row just read, in full, or an
\* order that was alive before it with at least the quantity it has now.
NonIncreaseStep ==
    \A n \in LiveOrders' :
        \/ RowSubmitted /\ n = NewRow
        \/ \E o \in LiveOrders :
              /\ o.TIME = n.TIME
              /\ n.QUANTITY <= o.QUANTITY
              /\ n = [o EXCEPT !.QUANTITY = n.QUANTITY]

\* C7 as stated: quantities never increase, and between calls no backlog
\* holds an order of quantity zero.
C7_Original ==
    [][ /\ NonIncreaseStep
        /\ pc' = "read" => \A o \in RestingOrders' : o.QUANTITY # 0 ]_vars

\* C7: quantities never increase, and an order brought to zero by a match is
\* removed in the same step: in every state an order resting with quantity
\* zero is an order that was submitted with quantity zero.
C7_QuantityMonotone ==
    [][ /\ NonIncreaseStep
        /\ \A o \in RestingOrders' :
              o.QUANTITY = 0 => input'[o.TIME].QUANTITY = 0 ]_vars

\* A match has brought a resting order to zero and removed it, while an order
\* submitted with quantity zero rests in a backlog.
C7_Witness ==
    /\ pc = "read"
    /\ \E i \in TradeLines :
          /\ out[i].QUANTITY >= 1
          /\ out[i].QUANTITY = input[out[i].OPEN_TIME].QUANTITY
          /\ \A o \in RestingOrders : o.TIME # out[i].OPEN_TIME
    /\ \E o \in RestingOrders : o.QUANTITY = 0

\* ---- C8 -------------------------------------------------------------------
\* C8: an order submitted with quantity zero is the opening or the closing
\* leg of no closed-trade line.
C8_ZeroOrderNoRecord ==
    \A i \in TradeLines :
        /\ input[out[i].OPEN_TIME].QUANTITY # 0
        /\ input[out[i].CLOSE_TIME].QUANTITY # 0

\* ---- C9 -------------------------------------------------------------------
\* Line i of the output precedes line j in match order: an earlier incoming
\* order, or the same incoming order and an older resting order.
MatchOrder(i, j) ==
    \/ out[i].CLOSE_TIME < out[j].CLOSE_TIME
    \/ /\ out[i].CLOSE_TIME = out[j].CLOSE_TIME
       /\ out[i].OPEN_TIME < out[j].OPEN_TIME

OutputShape ==
    /\ \A i \in 1 .. Len(out) : out[i].kind = "header" => i = 1
    /\ \A i \in TradeLines : out[1].kind = "header"
    /\ \A i, j \in TradeLines : i < j => MatchOrder(i, j)
    /\ \A i \in 1 .. Len(out) : out[i].kind = "total" => i = Len(out) /\ exit = 0
    /\ exit = 0 =>
          /\ out[1].kind = "header"
          /\ out[Len(out)] = [kind |-> "total", value |-> Format2(total)]
          /\ pc = "done"
          /\ order = NoOrder

\* C9: output ordering.  The header is written once, first; closed-trade
\* lines follow in match order, each while the order that closes the trade is
\* the last row read; the total is written once, last, when the run has
\* ended with every row processed, and it is the running total of that
\* moment in the two-digit format.
OutputStep ==
    /\ OutputShape'
    /\ TradeEmitted => input' = input /\ NewTrade.CLOSE_TIME = Len(input)
    /\ RowSubmitted => out' = out /\ pc = "read"
    /\ Len(out') > Len(out) /\ out'[Len(out')].kind = "total" =>
          /\ total' = total
          /\ pc = "read"
          /\ out'[Len(out')].value = Format2(total)
C9_OutputOrdering == [][OutputStep]_vars

\* A run has ended successfully after trades closed by two different orders,
\* with a total that the two-digit format rounds.
C9_Witness ==
    /\ exit = 0
    /\ \E i, j \in TradeLines : out[i].CLOSE_TIME < out[j].CLOSE_TIME
    /\ total % 2 = 1

\* ---- C10 ------------------------------------------------------------------
\* The process has ended without the file having been opened.
OpenFailed == pc \in {"failed", "crashed"} /\ input = << >> /\ (out = << >> \/ out[1].kind # "header")

\* C10: source unavailable.  When the file cannot be opened the process ends
\* with a nonzero status, with no header, closed-trade line or total written
\* and the backlogs and the total as they were at construction, and a
\* FileNotFoundError is reported on the output; a nonzero status comes only
\* from this or from a row that fails coercion, so a run that opened the file
\* and read well-formed rows to the end has status 0.
C10_SourceUnavailable ==
    /\ OpenFailed =>
          /\ exit \notin {NoExit, 0}
          /\ \A i \in 1 .. Len(out) : out[i].kind = "error"
          /\ queue = << >>
          /\ total = 0
    /\ pc = "failed" => OpenFailed /\ out = << ErrorLine >>
    /\ (\E i \in 1 .. Len(out) : out[i].kind = "error") => pc = "failed"
    /\ exit \notin {NoExit, 0} => pc \in {"failed", "crashed"}
    /\ pc = "done" => exit = 0 /\ out[1].kind = "header"
    /\ exit = NoExit <=> pc \in {"start", "read", "loop"}

\* The open has failed and the process has ended.
C10_Witness == pc = "failed" /\ exit = 1 /\ Len(out) = 1

\* ---- C11 ------------------------------------------------------------------
\* The closed-trade lines of the latest call of place_order, in the order
\* they were written.
IsCallLine(l) == l.kind = "trade" /\ l.CLOSE_TIME = entry.order.TIME
CallLines == SelectSeq(out, IsCallLine)

\* The latest call of place_order has returned, and it was made with an order
\* on the opposite side of a backlog whose quantities sum to less than the
\* quantity of the order.
CarryCall ==
    /\ pc # "loop"
    /\ entry.order # NoOrder
    /\ entry.pending # << >>
    /\ entry.pending[1].SIDE # entry.order.SIDE
    /\ entry.order.QUANTITY > SumQuantity(entry.pending)

\* C11: remainder carry-forward.  After a call with an order of quantity n on
\* the opposite side of a backlog of total quantity t < n, the backlog is the
\* incoming order alone, with quantity n - t and its own side, price and
\* time, and the call wrote one closed-trade line against each former resting
\* order, in arrival order and for the whole of its quantity.
C11_RemainderCarry ==
    CarryCall =>
        LET o   == entry.order
            was == entry.pending
        IN  /\ queue[o.SYMBOL] =
                  << [o EXCEPT !.QUANTITY = o.QUANTITY - SumQuantity(was)] >>
            /\ queue[o.SYMBOL][1].SIDE # was[1].SIDE
            /\ Len(CallLines) = Len(was)
            /\ \A i \in 1 .. Len(was) :
                  /\ CallLines[i].OPEN_TIME = was[i].TIME
                  /\ CallLines[i].QUANTITY = was[i].QUANTITY

\* An order of quantity 3 has overrun a backlog of two orders of quantity 1.
C11_Witness ==
    /\ CarryCall
    /\ Len(entry.pending) = 2
    /\ \A i \in 1 .. 2 : entry.pending[i].QUANTITY = 1
    /\ queue[entry.order.SYMBOL][1].QUANTITY = 1

\* ---- C12 ------------------------------------------------------------------
\* C12: closed-trade line content.  A line written by a step has the time,
\* side and price of the front order of the backlog as it is before the step,
\* the time, price and symbol of the incoming order, a close side that is the
\* opposite of the open side and the side of the incoming order, the matched
\* quantity, and as PNL the matched quantity times (close price - open
\* price); prices and PNL are written in the two-digit format.
RecordStep ==
    TradeEmitted =>
        LET head == queue[order.SYMBOL][1]
            r == NewTrade
        IN  /\ r.OPEN_TIME = head.TIME
            /\ r.OPEN_SIDE = head.SIDE
            /\ r.OPEN_PRICE = Format2(head.PRICE)
            /\ r.CLOSE_TIME = order.TIME
            /\ r.CLOSE_PRICE = Format2(order.PRICE)
            /\ r.SYMBOL = order.SYMBOL
            /\ r.CLOSE_SIDE # r.OPEN_SIDE
            /\ r.CLOSE_SIDE \in Sides
            /\ r.CLOSE_SIDE = order.SIDE
            /\ r.QUANTITY = Min(order.QUANTITY, head.QUANTITY)
            /\ r.PNL = Format2(r.QUANTITY * (order.PRICE - head.PRICE))
C12_RecordContent == [][RecordStep]_vars

\* Lines have been written for a partly consumed resting buy and for a
\* resting sell, at prices that differ from the closing price.
C12_Witness ==
    /\ \E i \in TradeLines :
          /\ out[i].OPEN_SIDE = "B"
          /\ out[i].QUANTITY >= 1
          /\ out[i].QUANTITY < input[out[i].OPEN_TIME].QUANTITY
          /\ out[i].PNL # 0
    /\ \E i \in TradeLines :
          /\ out[i].OPEN_SIDE = "S"
          /\ out[i].OPEN_PRICE # out[i].CLOSE_PRICE

\* ---- C13 ------------------------------------------------------------------
\* The symbols of the order place_order works on during this step.
StepSymbols ==
    IF RowSubmitted THEN {NewRow.SYMBOL}
    ELSE IF pc = "loop" THEN {order.SYMBOL}
    ELSE {}

\* C13: per-instrument isolation.  A step of place_order for an order on one
\* symbol leaves the backlog of every other symbol as it is and creates no
\* backlog for another symbol; the first order on a symbol not seen before
\* gets a new backlog, is appended to it and the call returns; and a
\* closed-trade line pairs two orders of the symbol it names.
IsolationStep ==
    /\ \A s \in DOMAIN queue \ StepSymbols :
          s \in DOMAIN queue' /\ queue'[s] = queue[s]
    /\ DOMAIN queue' \subseteq DOMAIN queue \cup StepSymbols
    /\ (RowSubmitted /\ NewRow.SYMBOL \notin DOMAIN queue) =>
          /\ queue'[NewRow.SYMBOL] = << NewRow >>
          /\ pc' = "read"
          /\ exit' = NoExit
    /\ TradeEmitted =>
          /\ input[NewTrade.OPEN_TIME].SYMBOL = NewTrade.SYMBOL
          /\ input[NewTrade.CLOSE_TIME].SYMBOL = NewTrade.SYMBOL
C13_Isolation == [][IsolationStep]_vars

\* An order on "Y", first seen after "X", rests in its backlog while a later
\* order on "X" has closed a trade and another order on "X" rests.
C13_Witness ==
    /\ DOMAIN queue = {"X", "Y"}
    /\ queue["Y"] # << >>
    /\ queue["Y"][1].TIME > 1
    /\ queue["X"] # << >>
    /\ \E i \in TradeLines :
          /\ out[i].SYMBOL = "X"
          /\ out[i].QUANTITY >= 1
          /\ out[i].CLOSE_TIME > queue["Y"][1].TIME

\* ---- C14 ------------------------------------------------------------------
\* place_order as a function: the backlog of one symbol, the total and the
\* closed-trade lines after the call, from those before it and the order.
RECURSIVE MatchLoop(_, _)
MatchLoop(st, o) ==
    IF LoopCond(st.pending, o)
    THEN LET i == FrontIndex(st.pending)
             head == st.pending[i]
             quantity == MatchQuantity(o, head)
             profit_and_loss == ProfitAndLoss(quantity, o, head)
             decremented == [st.pending EXCEPT ![i].QUANTITY = @ - quantity]
         IN  MatchLoop(
                [pending |-> IF Exhausted(decremented[FrontIndex(decremented)])
                             THEN Tail(decremented)
                             ELSE decremented,
                 total   |-> AddSigned(st.total, o.SIDE, profit_and_loss),
                 lines   |-> Append(st.lines,
                                    close_order(o, head, quantity, profit_and_loss))],
                [o EXCEPT !.QUANTITY = @ - quantity])
    ELSE [st EXCEPT !.pending = IF HasRemainder(o) THEN Append(@, o) ELSE @]

place_order(st, o) ==
    IF NoMatch(st.pending, o)
    THEN [st EXCEPT !.pending = Append(@, o)]
    ELSE MatchLoop(st, o)

\* The rows of one symbol handed to place_order one after the other, from an
\* empty backlog and a total of zero.
RECURSIVE Replay(_)
Replay(rows) ==
    IF rows = << >>
    THEN [pending |-> << >>, total |-> 0, lines |-> << >>]
    ELSE place_order(Replay(SubSeq(rows, 1, Len(rows) - 1)), rows[Len(rows)])

\* The position of row k of the input among the rows of its symbol.
Rank(k) == Cardinality({j \in 1 .. k : input[j].SYMBOL = input[k].SYMBOL})

\* The rows of the input on symbol s, in their order, each named by its
\* position among them: what two inputs that differ only in the interleaving
\* of the symbols have in common.
IsOn(s, row) == row.SYMBOL = s
Projection(s) ==
    LET IsOnS(row) == IsOn(s, row)
        rows == SelectSeq(input, IsOnS)
    IN  [i \in 1 .. Len(rows) |-> [rows[i] EXCEPT !.TIME = i]]

\* Orders and lines with every row named by its position among the rows of
\* its symbol.
RankedOrders(pending) ==
    [i \in 1 .. Len(pending) |-> [pending[i] EXCEPT !.TIME = Rank(@)]]
RankedLines(s) ==
    LET IsLineOnS(l) == l.kind = "trade" /\ l.SYMBOL = s
        lines == SelectSeq(out, IsLineOnS)
    IN  [i \in 1 .. Len(lines) |->
            [lines[i] EXCEPT !.OPEN_TIME = Rank(@), !.CLOSE_TIME = Rank(@)]]

InputSymbols == {input[k].SYMBOL : k \in 1 .. Len(input)}

RECURSIVE SumOfTotals(_, _)
SumOfTotals(replayed, symbols) ==
    IF symbols = {} THEN 0
    ELSE LET s == CHOOSE x \in symbols : TRUE
         IN  replayed[s].total + SumOfTotals(replayed, symbols \ {s})

\* C14: the order of rows of different symbols is insignificant.  At the end
\* of a run, the backlog of each symbol and the closed-trade lines of each
\* symbol are those of the rows of that symbol alone, processed in their
\* order, and the total is the sum of the totals of the symbols: two inputs
\* with the same rows and the same order within each symbol end with the same
\* backlogs, the same lines per symbol and the same total.
C14_CrossInstrumentOrder ==
    pc = "done" =>
        LET replayed == [s \in InputSymbols |-> Replay(Projection(s))]
        IN  /\ DOMAIN queue = InputSymbols
            /\ \A s \in InputSymbols :
                  /\ RankedOrders(queue[s]) = replayed[s].pending
                  /\ RankedLines(s) = replayed[s].lines
            /\ total = SumOfTotals(replayed, InputSymbols)

\* The run has ended with a row on "Y" read between two rows on "X" that
\* closed a trade with each other.
C14_Witness ==
    /\ pc = "done"
    /\ \E k \in 2 .. Len(input) - 1 :
          /\ input[k].SYMBOL = "Y"
          /\ \E i \in TradeLines :
                /\ out[i].SYMBOL = "X"
                /\ out[i].OPEN_TIME < k
                /\ out[i].CLOSE_TIME > k
                /\ out[i].PNL # 0

\* ---- C15 ------------------------------------------------------------------
\* The run has ended on a row that failed coercion: the file was opened (the
\* header is out) and the process crashed.
MalformedEnd == pc = "crashed" /\ out # << >> /\ out[1].kind = "header"

\* C15: malformed record.  A run that meets a row failing coercion ends with
\* a nonzero status, hands neither that row nor a later one to place_order,
\* writes no total, and has written no closed-trade line (stated for the
\* lines of nonzero quantity; those of quantity zero are the matter of C8).
C15_MalformedNoPartial ==
    MalformedEnd =>
        /\ exit \notin {NoExit, 0}
        /\ \A i \in 1 .. Len(out) : out[i].kind # "total"
        /\ \A i \in TradeLines : out[i].QUANTITY = 0

\* ---- C16 ------------------------------------------------------------------
\* The runs of a file that opens and whose rows, at most MaxFairOrders of
\* them, are all well-formed.  The program is one sequential thread: whenever
\* it has a next step it takes it.
MaxFairOrders == 3

SubmitFair(o) == Len(input) < MaxFairOrders /\ Submit(o)

NextWellFormed ==
    \/ OpenOk
    \/ \E o \in Rows : SubmitFair(o)
    \/ Match
    \/ Finish
    \/ EndOfInput

FairSpec == Init /\ [][NextWellFormed]_vars /\ WF_vars(NextWellFormed)

\* An iteration of the loop removes the front of the backlog or brings the
\* incoming order to zero.
LoopProgressStep ==
    TradeEmitted =>
        \/ Len(queue'[order.SYMBOL]) = Len(queue[order.SYMBOL]) - 1
        \/ order'.QUANTITY = 0

\* A call writes at most one line per order that was resting when it began.
CallLinesBounded ==
    entry.order # NoOrder => Len(CallLines) <= Len(entry.pending)

\* C16: termination.  Every iteration of the matching loop removes the front
\* order or exhausts the incoming order (also against a front order of
\* quantity zero), a call writes at most as many lines as orders were resting
\* at its start, every call returns, and the run reaches its end with the
\* total written.
C16_Termination ==
    /\ [][LoopProgressStep]_vars
    /\ [] CallLinesBounded
    /\ [] (pc = "loop" => <> (pc = "read"))
    /\ <> (pc = "done" /\ exit = 0 /\ out[Len(out)].kind = "total")

\* A run has ended after a call that wrote two lines, one of them against a
\* resting order of quantity zero.
C16_Witness ==
    /\ pc = "done"
    /\ Len(CallLines) >= 2
    /\ \E i \in 1 .. Len(CallLines) : CallLines[i].QUANTITY = 0
    /\ \E i \in 1 .. Len(CallLines) : CallLines[i].QUANTITY >= 1

\* ---- C17 ------------------------------------------------------------------
\* The quantity resting in a backlog, positive for a backlog of buys and
\* negative for a backlog of sells.
NetResting(pending) ==
    IF pending = << >> THEN 0
    ELSE IF pending[1].SIDE = "B" THEN SumQuantity(pending)
    ELSE 0 - SumQuantity(pending)

\* The input quantity bought minus the input quantity sold on symbol s in the
\* first k rows.
RECURSIVE NetSubmitted(_, _)
NetSubmitted(s, k) ==
    IF k = 0 THEN 0
    ELSE NetSubmitted(s, k - 1) +
            (IF input[k].SYMBOL # s THEN 0
             ELSE IF input[k].SIDE = "B" THEN input[k].QUANTITY
             ELSE 0 - input[k].QUANTITY)

\* C17: net position conservation.  Between calls of place_order, the
\* quantity resting in the backlog of a symbol, signed by the side of the
\* backlog, is the quantity of the buys submitted on the symbol minus the
\* quantity of the sells submitted on it.
C17_NetPosition ==
    pc # "loop" =>
        \A s \in DOMAIN queue : NetResting(queue[s]) = NetSubmitted(s, Len(input))

\* After partial fills in both directions a backlog of sells rests while buys
\* and sells of a larger gross quantity have been submitted.
C17_Witness ==
    /\ pc = "read"
    /\ "X" \in DOMAIN queue
    /\ NetResting(queue["X"]) < 0
    /\ \E i, j \in TradeLines :
          /\ out[i].CLOSE_SIDE = "S" /\ out[i].QUANTITY >= 1
          /\ out[j].CLOSE_SIDE = "B" /\ out[j].QUANTITY >= 1
    /\ Len(input) = MaxOrders

\* ---- C18 ------------------------------------------------------------------
\* The amount of closed-trade line i before it is formatted: its quantity
\* times the price of the closing row less the price of the opening row.
LineAmount(i) ==
    out[i].QUANTITY * (input[out[i].CLOSE_TIME].PRICE - input[out[i].OPEN_TIME].PRICE)

\* +1 for a line closed by a sell, -1 for a line closed by a buy.
CloseSign(i) == IF out[i].CLOSE_SIDE = "S" THEN 1 ELSE 0 - 1

\* The sum over the closed-trade lines among the first k lines of the output
\* of the printed PNL field (in hundredths), taken with the sign of the close
\* side.
RECURSIVE SignedFieldSum(_)
SignedFieldSum(k) ==
    IF k = 0 THEN 0
    ELSE SignedFieldSum(k - 1) +
            (IF out[k].kind = "trade" THEN CloseSign(k) * out[k].PNL ELSE 0)

\* The same sum of the amounts before formatting (in eighths).
RECURSIVE SignedAmountSum(_)
SignedAmountSum(k) ==
    IF k = 0 THEN 0
    ELSE SignedAmountSum(k - 1) +
            (IF out[k].kind = "trade" THEN CloseSign(k) * LineAmount(k) ELSE 0)

\* C18 as stated: the running total equals the sum of the PNL fields of the
\* closed-trade lines written so far, each taken with + when the close side
\* is S and with - when it is B.  The total counts eighths and the fields
\* count hundredths, so both sides are brought to two-hundredths.
C18_Original == 25 * total = 2 * SignedFieldSum(Len(out))

\* C18: accumulator versus reported PnL.  In every state the running total
\* equals the sum, over the closed-trade lines written so far, of the line's
\* amount before it is rounded for display, taken with + when the close side
\* is S and with - when it is B; the PNL field of a line is that amount
\* rounded to two decimals and not sign-adjusted, so for a position opened by
\* a sell the field is the rounding of the negation of what was added to the
\* total; and the total differs from the signed sum of the printed fields by
\* at most half a hundredth per line.
C18_AccumulatorVsReported ==
    /\ total = SignedAmountSum(Len(out))
    /\ \A i \in TradeLines :
          /\ out[i].PNL = Format2(LineAmount(i))
          /\ out[i].OPEN_SIDE = "S" =>
                /\ out[i].CLOSE_SIDE = "B"
                /\ out[i].PNL = 0 - Format2(CloseSign(i) * LineAmount(i))
    /\ LET d == 25 * total - 2 * SignedFieldSum(Len(out))
       IN  /\ d <= Cardinality(TradeLines)
           /\ 0 - d <= Cardinality(TradeLines)

\* A position opened by a sell has been closed at a profit that is no whole
\* number of hundredths, a position opened by a buy has been closed too, and
\* the total is not the signed sum of the printed fields.
C18_Witness ==
    /\ \E i \in TradeLines :
          /\ out[i].OPEN_SIDE = "S"
          /\ LineAmount(i) < 0
          /\ (25 * LineAmount(i)) % 2 = 1
    /\ \E i \in TradeLines : out[i].OPEN_SIDE = "B" /\ out[i].PNL # 0
    /\ 25 * total # 2 * SignedFieldSum(Len(out))

\* ---- C19 ------------------------------------------------------------------
\* Every row submitted so far has a quantity of at least 1.
PositiveInput == \A k \in 1 .. Len(input) : input[k].QUANTITY >= 1

\* The quantity the latest call of place_order has matched.
RECURSIVE SumLineQuantity(_)
SumLineQuantity(lines) ==
    IF lines = << >> THEN 0
    ELSE lines[1].QUANTITY + SumLineQuantity(Tail(lines))

\* C19: strict positivity under positive input.  If every submitted row has
\* a quantity of at least 1 then, between calls of place_order, every resting
\* order has a quantity of at least 1 and at most the quantity of its row,
\* every closed-trade line has a quantity of at least 1, and after a call
\* that matched either the incoming order was consumed entirely or the
\* backlog of its symbol is the remainder of the incoming order alone.
C19_StrictPositivity ==
    (PositiveInput /\ pc # "loop") =>
        /\ \A s \in DOMAIN queue : \A i \in 1 .. Len(queue[s]) :
              /\ queue[s][i].QUANTITY >= 1
              /\ queue[s][i].QUANTITY <= input[queue[s][i].TIME].QUANTITY
        /\ \A i \in TradeLines : out[i].QUANTITY >= 1
        /\ (entry.order # NoOrder /\ CallLines # << >>) =>
              LET o == entry.order
                  matched == SumLineQuantity(CallLines)
              IN  \/ matched = o.QUANTITY
                  \/ queue[o.SYMBOL] = << [o EXCEPT !.QUANTITY = @ - matched] >>

\* With positive rows only, the latest call has used up two resting orders
\* and left a remainder smaller than its row, alone in the backlog.
C19_Witness ==
    /\ PositiveInput
    /\ pc = "read"
    /\ entry.order # NoOrder
    /\ Len(CallLines) >= 2
    /\ Len(queue[entry.order.SYMBOL]) = 1
    /\ queue[entry.order.SYMBOL][1].TIME = entry.order.TIME
    /\ queue[entry.order.SYMBOL][1].QUANTITY < entry.order.QUANTITY

====
